---------------------------- MODULE Spec2Model ----------------------------
(***************************************************************************)
(* A model of EO_parser.py: the Database class (sqlite table               *)
(* executive_orders on one shared connection), the Viewer's search and     *)
(* run_scraper handlers, and the Scraper's crawl loop, document extractor   *)
(* and date conversion.                                                    *)
(*                                                                         *)
(* Python strings are modelled as sequences of one-character strings, so   *)
(* that strip(), strptime(), str(), int() and SQL LIKE are computed        *)
(* character by character.                                                 *)
(***************************************************************************)
EXTENDS Integers, Sequences, FiniteSets, TLC

VARIABLES
    rows,           \* table executive_orders of self.con, in rowid order
    added_eos,      \* Database.added_eos
    results_table,  \* Viewer.results_table: the displayed (id, title, date) rows
    last,           \* history: the last handler that ran, its input and pre-state
    raw_date,       \* the string handed to convert_date
    site,           \* the remote listing: its page count and pagination control
    pc,             \* where the process stands: idle, page, docs, close, store, exited
    runs,           \* the number of run_scraper calls so far
    context,        \* the browser context of launch_scraper: none, open, closed
    selected_url,   \* Scraper.selected_url
    current_page,   \* scrape_eo_links: current_page
    total_pages,    \* scrape_eo_links: total_pages
    eo_links,       \* Scraper.eo_links
    eo_data,        \* Scraper.eo_data
    found_links,    \* scrape_eo_links: the links of found_links still to process
    fetched,        \* history: the listing-page fetches of this run, in order
    completed,      \* history: eo_data and rows at the end of each finished run
    threads,        \* the store_eo call of each thread that uses self.con
    closes,         \* the number of self.con.close() calls so far
    exit_status,    \* <<>> while the process runs, then <<its exit status>>
    table           \* whether the database file holds the executive_orders table

storeVars == <<rows, added_eos, results_table>>

dateVars == <<raw_date>>

crawlVars ==
    <<site, pc, runs, context, selected_url, current_page, total_pages,
      eo_links, eo_data, found_links, fetched, completed>>

mainVars == <<closes, exit_status, table>>

vars == <<rows, added_eos, results_table, last, raw_date, crawlVars, threads, mainVars>>

----------------------------------------------------------------------------
(* Bounds of the model *)

NumUrls == 3        \* distinct urls offered to store_eo
MaxPad == 1         \* whitespace characters put before and after a date string
MaxPages == 3       \* listing pages of the remote site
MaxRuns == 2        \* run_scraper calls
MaxCalls == 1       \* store_eo calls of each concurrent thread

----------------------------------------------------------------------------
(* Python values *)

None == [none |-> TRUE]

RECURSIVE Str(_)
(* str(n) for n >= 0: the decimal digits of n *)
Str(n) ==
    LET digit == <<"0", "1", "2", "3", "4", "5", "6", "7", "8", "9">>
    IN  IF n < 10 THEN <<digit[n + 1]>> ELSE Str(n \div 10) \o <<digit[(n % 10) + 1]>>

Whitespace == {" ", "\n", "\t"}

RECURSIVE LStrip(_)
LStrip(s) == IF s # <<>> /\ Head(s) \in Whitespace THEN LStrip(Tail(s)) ELSE s

RECURSIVE RStrip(_)
RStrip(s) ==
    IF s # <<>> /\ s[Len(s)] \in Whitespace THEN RStrip(SubSeq(s, 1, Len(s) - 1)) ELSE s

(* str.strip(): s without its leading and trailing whitespace *)
Strip(s) == RStrip(LStrip(s))

UpperCase ==
    <<"A", "B", "C", "D", "E", "F", "G", "H", "I", "J", "K", "L", "M",
      "N", "O", "P", "Q", "R", "S", "T", "U", "V", "W", "X", "Y", "Z">>

LowerCase ==
    <<"a", "b", "c", "d", "e", "f", "g", "h", "i", "j", "k", "l", "m",
      "n", "o", "p", "q", "r", "s", "t", "u", "v", "w", "x", "y", "z">>

(* ASCII case folding of one character, as sqlite's LIKE and strptime's    *)
(* IGNORECASE regex apply it                                               *)
Lower(c) ==
    IF \E i \in 1..26 : UpperCase[i] = c
    THEN LowerCase[CHOOSE i \in 1..26 : UpperCase[i] = c]
    ELSE c

----------------------------------------------------------------------------
(* Database: queries *)

(* cursor.fetchone() of a SELECT: the first matching row in rowid order *)
FetchOne(matching) == IF matching = <<>> THEN None ELSE matching[1]

search_by_title(tbl, title) ==
    FetchOne(SelectSeq(tbl, LAMBDA r : r.title = title))

search_by_url(tbl, url) ==
    FetchOne(SelectSeq(tbl, LAMBDA r : r.url = url))

search_by_id(tbl, eo_id) ==
    FetchOne(SelectSeq(tbl, LAMBDA r : r.id = eo_id))

check_exists(tbl, url) == search_by_url(tbl, url) # None

full_database(tbl) == tbl

(* SELECT MAX(id): None on an empty table *)
RECURSIVE MaxOfIds(_)
MaxOfIds(tbl) ==
    IF Len(tbl) = 1 THEN tbl[1].id
    ELSE LET m == MaxOfIds(Tail(tbl))
         IN  IF tbl[1].id > m THEN tbl[1].id ELSE m

SelectMaxId(tbl) == IF tbl = <<>> THEN None ELSE MaxOfIds(tbl)

(* max_id is not None: MAX(id) is NULL exactly on the empty table *)
HasMaxId(tbl) == tbl # <<>>

(* a duplicate test that forgets the url *)
IsDuplicate_TitleOnly(tbl, eo) == search_by_title(tbl, eo.title) # None

(* a duplicate test that forgets the title *)
IsDuplicate_UrlOnly(tbl, eo) == check_exists(tbl, eo.url)

(* a duplicate test that never finds a duplicate *)
IsDuplicate_Never(tbl, eo) == FALSE

(* the duplicate test of store_eo *)
IsDuplicate(tbl, eo) ==
    \/ search_by_title(tbl, eo.title) # None
    \/ search_by_url(tbl, eo.url) # None
    \/ check_exists(tbl, eo.url)

(* an id assignment that forgets the + 1 *)
NextId_NoIncrement(tbl) ==
    IF HasMaxId(tbl) THEN SelectMaxId(tbl) ELSE 1

(* the id store_eo gives to a new row *)
NextId(tbl) ==
    IF HasMaxId(tbl) THEN SelectMaxId(tbl) + 1 ELSE 1

(* an insert that binds date and content in the wrong order *)
InsertRow_Swapped(tbl, eo_id, eo) ==
    Append(tbl, [id |-> eo_id, title |-> eo.title, date |-> eo.content,
                 content |-> eo.date, url |-> eo.url])

(* an insert that replaces the stored rows by the new one *)
InsertRow_Overwrites(tbl, eo_id, eo) ==
    <<[id |-> eo_id, title |-> eo.title, date |-> eo.date,
       content |-> eo.content, url |-> eo.url]>>

(* INSERT INTO executive_orders VALUES (?, ?, ?, ?, ?) *)
InsertRow(tbl, eo_id, eo) ==
    Append(tbl, [id |-> eo_id, title |-> eo.title, date |-> eo.date,
                 content |-> eo.content, url |-> eo.url])

----------------------------------------------------------------------------
(* SQL LIKE, as sqlite evaluates it with no ESCAPE clause: % matches any   *)
(* run of characters, _ any one character, every other character itself   *)
(* up to ASCII case                                                        *)

RECURSIVE Like(_, _)
Like(pattern, s) ==
    IF pattern = <<>> THEN s = <<>>
    ELSE IF Head(pattern) = "%"
         THEN \E k \in 0..Len(s) : Like(Tail(pattern), SubSeq(s, k + 1, Len(s)))
         ELSE /\ s # <<>>
              /\ (Head(pattern) = "_" \/ Lower(Head(pattern)) = Lower(Head(s)))
              /\ Like(Tail(pattern), Tail(s))

(* a WHERE clause that leaves the content column out *)
SearchMatches_NoContent(criteria, r) ==
    \/ Like(criteria, Str(r.id))
    \/ Like(criteria, r.title)
    \/ Like(criteria, r.date)
    \/ Like(criteria, r.url)

(* the WHERE clause of perform_search; the integer id is compared as text *)
SearchMatches(criteria, r) ==
    \/ Like(criteria, Str(r.id))
    \/ Like(criteria, r.title)
    \/ Like(criteria, r.date)
    \/ Like(criteria, r.content)
    \/ Like(criteria, r.url)

----------------------------------------------------------------------------
(* Scraper.convert_date: datetime.strptime(raw_date, "%B %d, %Y") and      *)
(* strftime("%Y-%m-%d")                                                    *)

MonthNames ==
    <<<<"j", "a", "n", "u", "a", "r", "y">>,
      <<"f", "e", "b", "r", "u", "a", "r", "y">>,
      <<"m", "a", "r", "c", "h">>,
      <<"a", "p", "r", "i", "l">>,
      <<"m", "a", "y">>,
      <<"j", "u", "n", "e">>,
      <<"j", "u", "l", "y">>,
      <<"a", "u", "g", "u", "s", "t">>,
      <<"s", "e", "p", "t", "e", "m", "b", "e", "r">>,
      <<"o", "c", "t", "o", "b", "e", "r">>,
      <<"n", "o", "v", "e", "m", "b", "e", "r">>,
      <<"d", "e", "c", "e", "m", "b", "e", "r">>>>

Digits == <<"0", "1", "2", "3", "4", "5", "6", "7", "8", "9">>

IsDigit(c) == \E i \in 1..10 : Digits[i] = c

DigitValue(c) == (CHOOSE i \in 1..10 : Digits[i] = c) - 1

Drop(s, n) == SubSeq(s, n + 1, Len(s))

StartsWithIgnoringCase(s, prefix) ==
    /\ Len(s) >= Len(prefix)
    /\ \A i \in 1..Len(prefix) : Lower(s[i]) = prefix[i]

RECURSIVE LeadingWhitespace(_)
(* the length of the longest run \s* at the head of s *)
LeadingWhitespace(s) ==
    IF s # <<>> /\ Head(s) \in Whitespace THEN 1 + LeadingWhitespace(Tail(s)) ELSE 0

(* the group 3[0-1]|[1-2]\d|0[1-9]|[1-9] at the head of s: the number of   *)
(* characters it takes, 0 when it does not match.  A two-digit alternative *)
(* is followed by a digit, so where one matches the one-digit alternative  *)
(* cannot be followed by the comma                                         *)
DayWidth(s) ==
    IF /\ Len(s) >= 2
       /\ \/ s[1] = "3" /\ s[2] \in {"0", "1"}
          \/ s[1] \in {"1", "2"} /\ IsDigit(s[2])
          \/ s[1] = "0" /\ IsDigit(s[2]) /\ s[2] # "0"
    THEN 2
    ELSE IF Len(s) >= 1 /\ IsDigit(s[1]) /\ s[1] # "0" THEN 1 ELSE 0

RECURSIVE ParseInt(_)
(* int(s) of a string of digits *)
ParseInt(s) ==
    IF s = <<>> THEN 0 ELSE 10 * ParseInt(SubSeq(s, 1, Len(s) - 1)) + DigitValue(s[Len(s)])

IsLeapYear(y) == (y % 4 = 0 /\ y % 100 # 0) \/ y % 400 = 0

DaysInMonth(m, y) ==
    IF m = 2 THEN (IF IsLeapYear(y) THEN 29 ELSE 28)
    ELSE IF m \in {4, 6, 9, 11} THEN 30 ELSE 31

ValueError == [ok |-> FALSE]

(* datetime.datetime.strptime(data_string, "%B %d, %Y"): the regex          *)
(* (?P<B>january|...)\s+(?P<d>...),\s+(?P<Y>\d\d\d\d) matched, ignoring     *)
(* case, at the start of data_string and up to its end                     *)
strptime(data_string) ==
    LET months == {m \in 1..12 : StartsWithIgnoringCase(data_string, MonthNames[m])}
    IN  IF months = {} THEN ValueError
        ELSE
        LET month == CHOOSE m \in months : TRUE
            afterB == Drop(data_string, Len(MonthNames[month]))
            ws1 == LeadingWhitespace(afterB)
            atD == Drop(afterB, ws1)
            dw == DayWidth(atD)
            afterD == Drop(atD, dw)
            afterComma == Drop(afterD, 1)
            ws2 == LeadingWhitespace(afterComma)
            atY == Drop(afterComma, ws2)
        IN  IF \/ ws1 = 0
               \/ dw = 0
               \/ afterD = <<>>
               \/ Head(afterD) # ","
               \/ ws2 = 0
               \/ Len(atY) < 4
               \/ \E i \in 1..4 : ~IsDigit(atY[i])
            THEN ValueError              \* "does not match format"
            ELSE IF Len(atY) # 4
            THEN ValueError              \* "unconverted data remains"
            ELSE
            LET year == ParseInt(atY)
                day == ParseInt(SubSeq(atD, 1, dw))
            IN  IF year < 1 \/ day > DaysInMonth(month, year)
                THEN ValueError          \* "day is out of range for month"
                ELSE [ok |-> TRUE, year |-> year, month |-> month, day |-> day]

Pad2(n) == IF n < 10 THEN <<"0">> \o Str(n) ELSE Str(n)

(* date_obj.strftime("%Y-%m-%d"), for the four-digit years of the inputs *)
strftime(date_obj) ==
    Str(date_obj.year) \o <<"-">> \o Pad2(date_obj.month) \o <<"-">> \o Pad2(date_obj.day)

(* line 516 evaluates raw_date.strip() and drops the value: strptime gets  *)
(* raw_date itself, and so does the except branch                          *)
convert_date(raw) ==
    LET stripped == Strip(raw)
        date_obj == strptime(raw)
    IN  IF date_obj.ok THEN strftime(date_obj) ELSE raw

----------------------------------------------------------------------------
(* Inputs of the store and search handlers *)

NA == <<"N", "/", "A">>

Titles == {<<"E", "O">>, <<"e", "o">>, NA}

(* the date and body a document of a given title carries *)
DateOf(title) == IF title = NA THEN NA ELSE <<"2", "0", "2", "5">>

ContentOf(title) == IF title = <<"E", "O">> THEN <<"a", "_", "1">> ELSE NA

Urls == {<<"u">> \o Str(i) : i \in 1..NumUrls}

(* the drafts handed to store_eo: every title under every url, so that     *)
(* drafts collide on the url alone, on the title alone, on both or not at  *)
(* all                                                                     *)
Drafts ==
    {[id |-> None, title |-> t, date |-> DateOf(t), content |-> ContentOf(t), url |-> u] :
        t \in Titles, u \in Urls}

SearchTexts ==
    {<<>>, <<"e", "o">>, <<"E", "O">>, <<"1">>, <<"u", "2">>, <<"_">>, <<"a", "%", "1">>}

----------------------------------------------------------------------------
(* Database.store_eo, run to completion *)

(* the table and the counter after store_eo(eo) on the database db *)
Stored(db, eo) ==
    IF IsDuplicate(db.rows, eo)
    THEN db
    ELSE [rows |-> InsertRow(db.rows, NextId(db.rows), eo),
          added_eos |-> db.added_eos + 1]

store_eo(eo) ==
    /\ LET db == Stored([rows |-> rows, added_eos |-> added_eos], eo)
       IN  rows' = db.rows /\ added_eos' = db.added_eos
    /\ last' = [op |-> "store_eo", eo_data |-> eo, rows0 |-> rows, added0 |-> added_eos]
    /\ UNCHANGED results_table

(* Viewer.populate_table, lines 252-267: the cells of the results table    *)
(* for the rows of full_database()                                         *)
populate_table(tbl) ==
    [i \in 1..Len(tbl) |-> <<Str(tbl[i].id), Strip(tbl[i].title), tbl[i].date>>]

(* Viewer.perform_search with the text of the search bar *)
perform_search(text) ==
    LET criteria == <<"%">> \o text \o <<"%">>
        found == SelectSeq(rows, LAMBDA r : SearchMatches(criteria, r))
    IN  /\ results_table' =
              [i \in 1..Len(found) |->
                  <<Str(found[i].id), Strip(found[i].title), found[i].date>>]
        /\ last' = [op |-> "perform_search", text |-> text]
        /\ UNCHANGED <<rows, added_eos>>

StoreEo == (\E eo \in Drafts : store_eo(eo)) /\ UNCHANGED <<dateVars, mainVars, crawlVars, threads>>

PerformSearch ==
    (\E text \in SearchTexts : perform_search(text)) /\ UNCHANGED <<dateVars, mainVars, crawlVars, threads>>

(* the Database and the Viewer after construction, on a new database file *)
StoreInit ==
    /\ rows = <<>>
    /\ added_eos = 0
    /\ results_table = <<>>
    /\ last = [op |-> "init"]

NoDate == raw_date = <<>>

(* no Scraper has been constructed *)
NoScraper ==
    /\ pc = "idle"
    /\ runs = 0
    /\ context = "none"
    /\ selected_url = None
    /\ current_page = 1
    /\ total_pages = 1
    /\ eo_links = <<>>
    /\ eo_data = <<>>
    /\ found_links = <<>>
    /\ fetched = <<>>
    /\ completed = <<>>

NoCrawl == NoScraper /\ site = [pages |-> 1, pagination |-> "none"]

(* no thread besides the GUI thread uses the connection *)
NoThreads == threads = <<>>

(* main has opened the connection (line 539) and the process runs *)
Started == closes = 0 /\ exit_status = <<>> /\ table = TRUE

Init == StoreInit /\ NoDate /\ NoCrawl /\ NoThreads /\ Started

Next == StoreEo \/ PerformSearch

Spec == Init /\ [][Next]_vars

----------------------------------------------------------------------------
(* convert_date applied to date strings *)

RECURSIVE StringsUpTo(_, _)
(* the strings of at most n characters of the set chars *)
StringsUpTo(chars, n) ==
    IF n = 0 THEN {<<>>}
    ELSE LET shorter == StringsUpTo(chars, n - 1)
         IN  shorter \cup {<<c>> \o t : c \in chars, t \in {u \in shorter : Len(u) = n - 1}}

Paddings == StringsUpTo({" ", "\n"}, MaxPad)

DateTexts ==
    {<<"M", "a", "y", " ", "1", ",", " ", "2", "0", "2", "5">>,
     <<"m", "a", "y", " ", " ", "0", "9", ",", " ", "2", "0", "2", "5">>,
     <<"M", "A", "Y", " ", "3", "1", ",", " ", "2", "0", "2", "4">>,
     <<"J", "u", "n", "e", " ", "3", "1", ",", " ", "2", "0", "2", "5">>,
     <<"F", "e", "b", "r", "u", "a", "r", "y", " ", "2", "9", ",", " ", "2", "0", "2", "4">>,
     <<"F", "e", "b", "r", "u", "a", "r", "y", " ", "2", "9", ",", " ", "2", "0", "2", "5">>,
     <<"M", "a", "y", " ", "1", ",", "2", "0", "2", "5">>,
     <<"M", "a", "y", " ", "1", ",", " ", "2", "0", "2", "5", "5">>,
     <<"M", "a", "y", " ", "3", "2", ",", " ", "2", "0", "2", "5">>,
     <<"J", "a", "n", " ", "2", "0", ",", " ", "2", "0", "2", "5">>,
     <<"N", "/", "A">>,
     <<>>}

RawDates == {l \o t \o r : l \in Paddings, t \in DateTexts, r \in Paddings}

ConvertDate ==
    /\ last.op = "init"
    /\ last' = [op |-> "convert_date", raw_date |-> raw_date, ret |-> convert_date(raw_date)]
    /\ UNCHANGED <<raw_date, storeVars, crawlVars, threads, mainVars>>

InitDate ==
    /\ Started
    /\ raw_date \in RawDates
    /\ StoreInit
    /\ NoCrawl
    /\ NoThreads

NextDate == ConvertDate

SpecDate == InitDate /\ [][NextDate]_vars

----------------------------------------------------------------------------
(* The Scraper: its constants and pure steps *)

foundation_url ==
    <<"h", "t", "t", "p", "s", ":", "/", "/", "w", "w", "w", ".", "w", "h",
      "i", "t", "e", "h", "o", "u", "s", "e", ".", "g", "o", "v", "/", "p",
      "r", "e", "s", "i", "d", "e", "n", "t", "i", "a", "l", "-", "a", "c",
      "t", "i", "o", "n", "s", "/", "e", "x", "e", "c", "u", "t", "i", "v",
      "e", "-", "o", "r", "d", "e", "r", "s", "/">>

(* the other href that line 442 leaves out *)
presidential_actions_url ==
    <<"h", "t", "t", "p", "s", ":", "/", "/", "w", "w", "w", ".", "w", "h",
      "i", "t", "e", "h", "o", "u", "s", "e", ".", "g", "o", "v", "/", "p",
      "r", "e", "s", "i", "d", "e", "n", "t", "i", "a", "l", "-", "a", "c",
      "t", "i", "o", "n", "s", "/">>

(* line 463: f"{self.foundation_url}page/{current_page}/" *)
PageUrl(page) ==
    foundation_url \o <<"p", "a", "g", "e", "/">> \o Str(page) \o <<"/">>

(* a page step that skips a page *)
NextPage_SkipsOne(page) == page + 2

(* "current_page += 1", lines 427 and 462 *)
NextPage(page) == page + 1

Last(seq) == seq[Len(seq)]

InSeq(x, seq) == \E i \in 1..Len(seq) : seq[i] = x

RECURSIVE Join(_, _)
(* sep.join(parts) *)
Join(sep, parts) ==
    IF parts = <<>> THEN <<>>
    ELSE IF Len(parts) = 1 THEN parts[1]
    ELSE parts[1] \o sep \o Join(sep, Tail(parts))

(* the outcomes of page.goto followed by page.wait_for_selector *)
FetchOutcomes == {"ok", "goto_timeout", "wait_timeout"}

----------------------------------------------------------------------------
(* The remote site: listing pages, their anchors and pagination control,   *)
(* and the documents.  It does not change between runs; only the fetches   *)
(* time out or not.                                                        *)

SiteListingUrl(k) ==
    IF k = 1 THEN foundation_url
    ELSE foundation_url \o <<"p", "a", "g", "e", "/">> \o Str(k) \o <<"/">>

(* the listing page served at url, 0 when there is none *)
SitePageAt(s, url) ==
    IF \E k \in 1..s.pages : SiteListingUrl(k) = url
    THEN CHOOSE k \in 1..s.pages : SiteListingUrl(k) = url
    ELSE 0

DocUrl(k) == <<"u">> \o Str(k)

(* the listing root written without its closing slash *)
RootWithoutSlash == SubSeq(foundation_url, 1, Len(foundation_url) - 1)

(* the href values of the anchors in the list items of listing page k, in  *)
(* document order; <<>> is an anchor without href.  Every page links the   *)
(* two index pages, repeats one of its documents and, after page 1,        *)
(* repeats the last document of the page before; its last anchor links    *)
(* the listing root without the closing slash                              *)
Anchors(k) ==
    <<foundation_url, presidential_actions_url, <<>>>>
    \o (IF k > 1 THEN <<DocUrl(3 * k - 3)>> ELSE <<>>)
    \o <<DocUrl(3 * k - 2), DocUrl(3 * k - 1), DocUrl(3 * k - 2), DocUrl(3 * k)>>
    \o <<RootWithoutSlash>>

(* the texts of the a.page-numbers links of page 1's pagination control:   *)
(* the pages after the current one                                         *)
PaginationLinks(s) ==
    IF s.pagination = "numbers" THEN [i \in 1..(s.pages - 1) |-> Str(i + 1)] ELSE <<>>

Sites ==
    {[pages |-> 1, pagination |-> k] : k \in {"none", "empty"}}
    \cup {[pages |-> n, pagination |-> "numbers"] : n \in 2..MaxPages}

(* the document behind the k-th document url *)
DocNumber(k) ==
    LET kind == ((k - 1) % 6) + 1
    IN  IF kind = 1 THEN
            [markup |-> "ok", headline |-> <<"E", "O">>,
             time |-> <<"M", "a", "y", " ", "1", ",", " ", "2", "0", "2", "5">>,
             paragraphs |-> <<<<"a", "_", "1">>, <<"b">>>>]
        ELSE IF kind = 2 THEN
            [markup |-> "no_time", headline |-> <<"e">>]
        ELSE IF kind = 3 THEN
            [markup |-> "ok", headline |-> <<"e", "o">>,
             time |-> <<" ", "J", "u", "n", "e", " ", "3", "0", ",", " ", "2", "0", "2", "5">>,
             paragraphs |-> <<>>]
        ELSE IF kind = 4 THEN
            [markup |-> "no_headline"]
        ELSE IF kind = 5 THEN
            [markup |-> "unparsable"]
        ELSE
            [markup |-> "ok", headline |-> <<"E", "O">>,
             time |-> NA,
             paragraphs |-> <<<<"c">>>>]

(* the page behind url: a document, or a page of the site that is none and *)
(* has no document headline                                                *)
Doc(url) ==
    IF \E k \in 1..(3 * (MaxPages + 1)) : DocUrl(k) = url
    THEN DocNumber(CHOOSE k \in 1..(3 * (MaxPages + 1)) : DocUrl(k) = url)
    ELSE [markup |-> "no_headline"]

----------------------------------------------------------------------------
(* Scraper.get_eo_data *)

Sentinel(url) ==
    [id |-> None, title |-> NA, date |-> NA, content |-> NA, url |-> url]

(* the try block, lines 471-499: what it raises or the record it builds *)
ExtractBody(url, outcome) ==
    LET doc == Doc(url)
    IN  IF outcome = "goto_timeout"
        THEN [raises |-> TRUE]                      \* page.goto, line 475
        ELSE IF outcome = "wait_timeout" \/ doc.markup = "no_headline"
        THEN [raises |-> TRUE]                      \* wait_for_selector, line 478
        ELSE IF doc.markup = "unparsable"
        THEN [raises |-> TRUE]                      \* BeautifulSoup, line 482
        ELSE IF doc.markup = "no_time"
        THEN [raises |-> TRUE]                      \* None.text, line 485
        ELSE [raises |-> FALSE,
              record |-> [id |-> None,
                          title |-> doc.headline,
                          date |-> convert_date(doc.time),
                          content |-> Join(<<"\n">>, doc.paragraphs),
                          url |-> url]]

(* a get_eo_data whose except branch appends no record *)
get_eo_data_DropsFailure(data, url, outcome) ==
    LET body == ExtractBody(url, outcome)
    IN  IF body.raises
        THEN [eo_data |-> data, raised |-> FALSE]
        ELSE [eo_data |-> Append(data, body.record), raised |-> FALSE]

(* a get_eo_data without its except branch *)
get_eo_data_NoExcept(data, url, outcome) ==
    LET body == ExtractBody(url, outcome)
    IN  IF body.raises
        THEN [eo_data |-> data, raised |-> TRUE]
        ELSE [eo_data |-> Append(data, body.record), raised |-> FALSE]

(* self.eo_data after get_eo_data(page, url), and whether the call raised *)
get_eo_data(data, url, outcome) ==
    LET body == ExtractBody(url, outcome)
    IN  IF body.raises
        THEN [eo_data |-> Append(data, Sentinel(url)), raised |-> FALSE]
        ELSE [eo_data |-> Append(data, body.record), raised |-> FALSE]

----------------------------------------------------------------------------
(* Scraper.scrape_eo_links *)

(* a link collection without the test of line 442 *)
CollectLinks_KeepsIndexUrls(anchors, found, links) ==
    LET New(i) == /\ anchors[i] # <<>>
                  /\ ~InSeq(anchors[i], links)
                  /\ \A j \in 1..(i - 1) : anchors[j] # anchors[i]
        picked == SelectSeq([i \in 1..Len(anchors) |-> i], New)
        kept == [n \in 1..Len(picked) |-> anchors[picked[n]]]
    IN  [found_links |-> found \o kept, eo_links |-> links \o kept]

(* a link collection without the membership test of lines 444-445 *)
CollectLinks_NoDedup(anchors, found, links) ==
    LET kept == SelectSeq(anchors, LAMBDA href : /\ href # <<>>
                                                 /\ href # foundation_url
                                                 /\ href # presidential_actions_url)
    IN  [found_links |-> found \o kept, eo_links |-> links \o kept]

RECURSIVE CollectLinks(_, _, _)
(* lines 437-448: found_links and self.eo_links after the anchors *)
CollectLinks(anchors, found, links) ==
    IF anchors = <<>> THEN [found_links |-> found, eo_links |-> links]
    ELSE LET href == Head(anchors)
         IN  IF \/ href = <<>>
                \/ href = foundation_url
                \/ href = presidential_actions_url
                \/ InSeq(href, links)
             THEN CollectLinks(Tail(anchors), found, links)
             ELSE CollectLinks(Tail(anchors), Append(found, href), Append(links, href))

(* the loop test of line 407 after current_page has become page *)
LoopOrLeave(page, total) == IF page <= total THEN "page" ELSE "close"

(* lines 461-463 and the loop test *)
MoveToNextPage(total) ==
    /\ current_page' = NextPage(current_page)
    /\ selected_url' = PageUrl(NextPage(current_page))
    /\ pc' = LoopOrLeave(NextPage(current_page), total)

(* one iteration of the while loop up to the first document: the fetch of  *)
(* the listing page, the pagination control on page 1, the links           *)
scrape_page(outcome) ==
    LET k == SitePageAt(site, selected_url)
        ok == outcome = "ok" /\ k # 0
    IN  /\ pc = "page"
        /\ fetched' = Append(fetched, [page |-> current_page, url |-> selected_url, ok |-> ok])
        /\ IF ~ok
           THEN \* lines 425-428
                /\ current_page' = NextPage(current_page)
                /\ pc' = LoopOrLeave(NextPage(current_page), total_pages)
                /\ last' = [op |-> "scrape_page", result |-> "skipped"]
                /\ UNCHANGED <<selected_url, total_pages, eo_links, found_links>>
           ELSE IF current_page = 1 /\ site.pagination = "empty"
           THEN \* line 434 raises IndexError, caught at line 388
                /\ pc' = "close"
                /\ last' = [op |-> "scrape_page", result |-> "IndexError"]
                /\ UNCHANGED <<selected_url, current_page, total_pages, eo_links, found_links>>
           ELSE LET links == CollectLinks(Anchors(k), <<>>, eo_links)
                    total == IF current_page = 1 /\ site.pagination = "numbers"
                             THEN ParseInt(Last(PaginationLinks(site)))
                             ELSE total_pages
                IN  /\ total_pages' = total
                    /\ eo_links' = links.eo_links
                    /\ found_links' = links.found_links
                    /\ last' = [op |-> "scrape_page", result |-> "scraped"]
                    /\ IF links.found_links = <<>>
                       THEN MoveToNextPage(total)
                       ELSE pc' = "docs" /\ UNCHANGED <<selected_url, current_page>>
        /\ UNCHANGED <<site, runs, context, eo_data, completed, storeVars, dateVars, mainVars, threads>>

(* the next turn of the for loop of lines 453-459 and, after the last      *)
(* link, the move to the next page                                         *)
process_link(outcome) ==
    LET url == Head(found_links)
        r == get_eo_data(eo_data, url, outcome)
    IN  /\ pc = "docs"
        /\ eo_data' = r.eo_data
        /\ found_links' = Tail(found_links)
        /\ last' = [op |-> "get_eo_data", url |-> url, outcome |-> outcome,
                    eo_data0 |-> eo_data, raised |-> r.raised]
        /\ IF Tail(found_links) = <<>>
           THEN MoveToNextPage(total_pages)
           ELSE UNCHANGED <<pc, current_page, selected_url>>
        /\ UNCHANGED <<site, runs, context, total_pages, eo_links, fetched, completed,
                       storeVars, dateVars, mainVars, threads>>

----------------------------------------------------------------------------
(* Viewer.run_scraper, Scraper.__init__ and launch_scraper *)

(* launch_scraper up to line 384: the context is acquired and the routes   *)
(* are set, or launch_persistent_context (line 363) or page.route (lines   *)
(* 382-384) raises                                                         *)
LaunchOutcomes == {"ok", "launch_error", "route_error"}

(* the click on "Run Scraper" up to the first test of the while loop; an   *)
(* exception of lines 363-384 is raised outside the try of line 386,       *)
(* passes line 394 by and is caught at line 349, after which run_scraper   *)
(* goes on at line 233                                                     *)
launch_scraper(launch) ==
    /\ pc = "idle"
    /\ runs < MaxRuns
    /\ runs' = runs + 1
    /\ eo_links' = <<>>                     \* Scraper.__init__, line 338
    /\ eo_data' = <<>>                      \* line 339
    /\ context' = IF launch = "launch_error" THEN "none" ELSE "open"   \* line 363
    /\ selected_url' = IF launch = "ok" THEN foundation_url ELSE None  \* lines 337, 403
    /\ current_page' = 1                    \* line 404
    /\ total_pages' = 1                     \* line 405
    /\ found_links' = <<>>
    /\ fetched' = <<>>
    /\ pc' = IF launch = "ok" THEN LoopOrLeave(1, 1) ELSE "store"      \* line 407
    /\ last' = [op |-> "run_scraper", launch |-> launch]
    /\ UNCHANGED <<site, completed, storeVars, dateVars, mainVars, threads>>

RunScraper == \E launch \in LaunchOutcomes : launch_scraper(launch)

ScrapePage == \E outcome \in FetchOutcomes : scrape_page(outcome)

GetEoData == \E outcome \in FetchOutcomes : process_link(outcome)

(* line 394: await context.close() *)
CloseContext ==
    /\ pc = "close"
    /\ context' = "closed"
    /\ pc' = "store"
    /\ last' = [op |-> "context.close"]
    /\ UNCHANGED <<site, runs, selected_url, current_page, total_pages, eo_links,
                   eo_data, found_links, fetched, completed, storeVars, dateVars, mainVars, threads>>

RECURSIVE StoredAll(_, _)
(* the for loop of lines 236-237 *)
StoredAll(db, scraped_eos) ==
    IF scraped_eos = <<>> THEN db
    ELSE StoredAll(Stored(db, Head(scraped_eos)), Tail(scraped_eos))

(* lines 233-242: the records are stored, the count is shown and reset *)
StoreScraped ==
    LET db == StoredAll([rows |-> rows, added_eos |-> added_eos], eo_data)
    IN  /\ pc = "store"
        /\ rows' = db.rows
        /\ added_eos' = 0
        /\ last' = [op |-> "store_scraped", shown |-> db.added_eos, rows0 |-> rows]
        /\ completed' = Append(completed, [eo_data |-> eo_data, rows |-> db.rows])
        /\ results_table' = populate_table(db.rows)        \* line 242
        /\ pc' = "idle"
        /\ UNCHANGED <<site, runs, context, selected_url, current_page,
                       total_pages, eo_links, eo_data, found_links, fetched, dateVars, mainVars,
                       threads>>

----------------------------------------------------------------------------
(* main, Database.close and the interruption of a crawl *)

(* Database.close, lines 156-159: self.con is set since line 70, so the    *)
(* test of line 158 passes on every call, also after a close               *)
close(n) == n + 1

(* the close() calls of main on a path, which is "normal" when app.exec()  *)
(* returns (line 562) and else the exception that leaves the try block of  *)
(* lines 538-562: the except branches of lines                             *)
(* 563-573 close and call sys.exit(), whose SystemExit then runs the       *)
(* finally block of lines 575-580, which closes as well                    *)
ClosesOfMain(n, path) ==
    LET handled == IF path \in {"KeyboardInterrupt", "Exception"} THEN close(n) ELSE n
    IN  close(handled)

(* the exit status of main: on every path the last statement run is the    *)
(* sys.exit() of line 580, which has no argument                           *)
StatusOfMain(path) == 0

(* main is left on path *)
main(path) ==
    /\ pc = "idle"
    /\ closes' = ClosesOfMain(closes, path)
    /\ exit_status' = <<StatusOfMain(path)>>
    /\ pc' = "exited"
    /\ last' = [op |-> "main", path |-> path, interrupted |-> FALSE,
                extracted |-> <<>>, rows0 |-> rows]
    /\ UNCHANGED <<site, runs, context, selected_url, current_page, total_pages, eo_links,
                   eo_data, found_links, fetched, completed, storeVars, dateVars, threads,
                   table>>

(* the window is closed and app.exec() returns *)
AppExit == main("normal")

(* Ctrl-C while the try block of main runs *)
KeyboardInterruptExit == main("KeyboardInterrupt")

(* an exception leaves the try block of main *)
ExceptionExit == main("Exception")

(* SIGINT while asyncio.run (line 348) runs the crawl.  Without debug_mode *)
(* the default handler raises KeyboardInterrupt; with it signal_handler    *)
(* (lines 354-357) calls sys.exit(1), which raises SystemExit.  Neither is *)
(* an Exception: lines 388, 349 and 243 do not catch it, so line 394 and   *)
(* the store loop of lines 236-237 are passed by and it leaves the slot    *)
(* run_scraper.  What the Qt binding does with it then is not fixed by the *)
(* source: it reaches main ("main"), it is reported and dropped and the    *)
(* event loop goes on ("event_loop"), or a SystemExit ends the process     *)
(* with its status at once ("exit")                                        *)
Interrupts ==
    {[kind |-> "KeyboardInterrupt", delivery |-> "main"],
     [kind |-> "KeyboardInterrupt", delivery |-> "event_loop"],
     [kind |-> "SystemExit", delivery |-> "main"],
     [kind |-> "SystemExit", delivery |-> "exit"]}

signal_handler(int) ==
    /\ pc \in {"page", "docs", "close"}
    /\ last' = [op |-> "main", path |-> int.kind, interrupted |-> TRUE,
                extracted |-> eo_data, rows0 |-> rows]
    /\ IF int.delivery = "main"
       THEN /\ closes' = ClosesOfMain(closes, int.kind)
            /\ exit_status' = <<StatusOfMain(int.kind)>>
            /\ pc' = "exited"
       ELSE IF int.delivery = "exit"
       THEN /\ exit_status' = <<1>>            \* line 357
            /\ pc' = "exited"
            /\ UNCHANGED closes
       ELSE /\ pc' = "idle"
            /\ UNCHANGED <<closes, exit_status>>
    \* line 230 did not assign self.scraper: the Scraper under construction,
    \* its eo_links and eo_data and the locals of scrape_eo_links are gone
    /\ selected_url' = None
    /\ current_page' = 1
    /\ total_pages' = 1
    /\ eo_links' = <<>>
    /\ eo_data' = <<>>
    /\ found_links' = <<>>
    /\ fetched' = <<>>
    /\ UNCHANGED <<site, runs, context, completed, storeVars, dateVars, threads, table>>

Interrupt == \E int \in Interrupts : signal_handler(int)

InitCrawl ==
    /\ Started
    /\ StoreInit
    /\ NoDate
    /\ NoScraper
    /\ site \in Sites
    /\ NoThreads

NextCrawl ==
    \/ RunScraper
    \/ ScrapePage
    \/ GetEoData
    \/ CloseContext
    \/ StoreScraped
    \/ Interrupt
    \/ AppExit
    \/ KeyboardInterruptExit
    \/ ExceptionExit

SpecCrawl == InitCrawl /\ [][NextCrawl]_vars

----------------------------------------------------------------------------
(* The start of main: Database.__init__ (line 539) and Viewer.__init__     *)
(* (line 561) on a database file that may hold the table already           *)

(* what lines 70-72 can raise besides "table already exists": connect      *)
(* fails (line 70, outside the try), or CREATE TABLE fails with another    *)
(* sqlite3.OperationalError (database is locked, readonly database, disk   *)
(* I/O error) or with an sqlite3.DatabaseError that is none (file is not   *)
(* a database)                                                             *)
InitFaults == {"none", "connect_OperationalError", "create_OperationalError",
               "create_DatabaseError"}

(* the tables a database file of an earlier session holds *)
ExistingTables ==
    LET eo(t, u) == [id |-> None, title |-> t, date |-> DateOf(t),
                     content |-> ContentOf(t), url |-> u]
        stored(ds) == StoredAll([rows |-> <<>>, added_eos |-> 0], ds).rows
    IN  {stored(<<>>),
         stored(<<eo(<<"E", "O">>, DocUrl(1))>>),
         stored(<<eo(<<"E", "O">>, DocUrl(1)), eo(NA, DocUrl(2))>>)}

(* the error of lines 70-72 under a fault *)
InitError(fault) ==
    IF fault # "none" THEN fault
    ELSE IF table THEN "table_exists"
    ELSE "none"

(* line 73 catches sqlite3.OperationalError of line 72, whatever its cause *)
Swallowed(error) == error \in {"table_exists", "create_OperationalError"}

(* Database.__init__, lines 63-74.  An error that line 73 does not catch   *)
(* leaves it with `database` of main unbound: the close() calls of lines   *)
(* 572 and 576-578 raise UnboundLocalError and the process ends with the   *)
(* traceback and status 1                                                  *)
Database_init(fault) ==
    LET error == InitError(fault)
    IN  /\ pc = "start"
        /\ last' = [op |-> "Database.__init__", error |-> error, rows0 |-> rows,
                    table0 |-> table]
        /\ added_eos' = 0                                   \* line 66
        /\ IF error = "none" \/ Swallowed(error)
           THEN /\ table' = (table \/ error = "none")      \* line 72
                /\ pc' = "viewer"
                /\ UNCHANGED exit_status
           ELSE /\ exit_status' = <<1>>
                /\ pc' = "exited"
                /\ UNCHANGED table
        /\ UNCHANGED <<rows, results_table, closes, site, runs, context, selected_url,
                       current_page, total_pages, eo_links, eo_data, found_links, fetched,
                       completed, dateVars, threads>>

DatabaseInit == \E fault \in InitFaults : Database_init(fault)

(* Viewer.__init__, lines 171-223, up to app.exec(): populate_table (line  *)
(* 223) reads the table; without one the SELECT of line 100 raises         *)
(* OperationalError, which main handles at lines 570-580                   *)
ViewerInit ==
    /\ pc = "viewer"
    /\ last' = [op |-> "Viewer.__init__", error |-> ~table]
    /\ IF table
       THEN /\ results_table' = populate_table(rows)
            /\ pc' = "idle"
            /\ UNCHANGED <<closes, exit_status>>
       ELSE /\ closes' = ClosesOfMain(closes, "Exception")
            /\ exit_status' = <<StatusOfMain("Exception")>>
            /\ pc' = "exited"
            /\ UNCHANGED results_table
    /\ UNCHANGED <<rows, added_eos, table, site, runs, context, selected_url, current_page,
                   total_pages, eo_links, eo_data, found_links, fetched, completed,
                   dateVars, threads>>

(* store_eo once the application runs *)
IdleStoreEo == pc = "idle" /\ StoreEo

InitStart ==
    /\ table \in BOOLEAN
    /\ rows \in (IF table THEN ExistingTables ELSE {<<>>})
    /\ added_eos = 0
    /\ results_table = <<>>
    /\ last = [op |-> "init"]
    /\ closes = 0
    /\ exit_status = <<>>
    /\ pc = "start"
    /\ runs = 0
    /\ context = "none"
    /\ selected_url = None
    /\ current_page = 1
    /\ total_pages = 1
    /\ eo_links = <<>>
    /\ eo_data = <<>>
    /\ found_links = <<>>
    /\ fetched = <<>>
    /\ completed = <<>>
    /\ site = [pages |-> 1, pagination |-> "none"]
    /\ NoDate
    /\ NoThreads

NextStart == DatabaseInit \/ ViewerInit \/ IdleStoreEo

SpecStart == InitStart /\ [][NextStart]_vars

----------------------------------------------------------------------------
(* store_eo called from several threads on the one connection, which       *)
(* line 70 opens with check_same_thread=False.  Each SQL statement is one  *)
(* step; between two statements of a call the other thread may run.        *)

Threads == {"t1", "t2"}

(* the drafts the threads store: every title under one url *)
SameUrlDrafts == {eo \in Drafts : eo.url = DocUrl(1)}

Idle(calls) == [pc |-> "idle", calls |-> calls]

(* what a step of store_eo leaves alone *)
otherVars == <<results_table, last, dateVars, mainVars, crawlVars>>

(* store_eo(eo) is entered *)
Call(t) ==
    /\ threads[t].pc = "idle"
    /\ threads[t].calls < MaxCalls
    /\ \E eo \in SameUrlDrafts :
          threads' = [threads EXCEPT ![t] =
                        [pc |-> "by_title", calls |-> @.calls + 1, eo_data |-> eo]]
    /\ UNCHANGED <<rows, added_eos, otherVars>>

(* line 78, first operand: self.search_by_title(eo_data["title"]) *)
CheckTitle(t) ==
    /\ threads[t].pc = "by_title"
    /\ threads' = [threads EXCEPT ![t] =
                     IF search_by_title(rows, @.eo_data.title) # None
                     THEN Idle(@.calls)
                     ELSE [@ EXCEPT !.pc = "by_url"]]
    /\ UNCHANGED <<rows, added_eos, otherVars>>

(* line 78, second operand: self.search_by_url(eo_data["url"]) *)
CheckUrl(t) ==
    /\ threads[t].pc = "by_url"
    /\ threads' = [threads EXCEPT ![t] =
                     IF search_by_url(rows, @.eo_data.url) # None
                     THEN Idle(@.calls)
                     ELSE [@ EXCEPT !.pc = "exists"]]
    /\ UNCHANGED <<rows, added_eos, otherVars>>

(* line 78, third operand: self.check_exists(eo_data["url"]) *)
CheckExists(t) ==
    /\ threads[t].pc = "exists"
    /\ threads' = [threads EXCEPT ![t] =
                     IF check_exists(rows, @.eo_data.url)
                     THEN Idle(@.calls)
                     ELSE [@ EXCEPT !.pc = "max_id"]]
    /\ UNCHANGED <<rows, added_eos, otherVars>>

(* lines 82-84: SELECT MAX(id) and eo_id *)
SelectMax(t) ==
    /\ threads[t].pc = "max_id"
    /\ threads' = [threads EXCEPT ![t] =
                     [pc |-> "insert", calls |-> @.calls, eo_data |-> @.eo_data,
                      eo_id |-> NextId(rows)]]
    /\ UNCHANGED <<rows, added_eos, otherVars>>

(* lines 90-93: the INSERT; on a taken id sqlite raises IntegrityError,    *)
(* which leaves store_eo                                                   *)
Insert(t) ==
    /\ threads[t].pc = "insert"
    /\ IF search_by_id(rows, threads[t].eo_id) # None
       THEN /\ threads' = [threads EXCEPT ![t] = Idle(@.calls)]
            /\ UNCHANGED <<rows, otherVars>>
       ELSE /\ rows' = InsertRow(rows, threads[t].eo_id, threads[t].eo_data)
            /\ threads' = [threads EXCEPT ![t] =
                             [pc |-> "load_count", calls |-> @.calls]]
    /\ UNCHANGED <<added_eos, otherVars>>

(* line 95: self.added_eos += 1, the read *)
LoadCount(t) ==
    /\ threads[t].pc = "load_count"
    /\ threads' = [threads EXCEPT ![t] =
                     [pc |-> "store_count", calls |-> @.calls, read |-> added_eos]]
    /\ UNCHANGED <<rows, added_eos, otherVars>>

(* line 95: self.added_eos += 1, the write *)
StoreCount(t) ==
    /\ threads[t].pc = "store_count"
    /\ added_eos' = threads[t].read + 1
    /\ threads' = [threads EXCEPT ![t] = [pc |-> "commit", calls |-> @.calls]]
    /\ UNCHANGED <<rows, otherVars>>

(* line 96: self.con.commit() *)
Commit(t) ==
    /\ threads[t].pc = "commit"
    /\ threads' = [threads EXCEPT ![t] = Idle(@.calls)]
    /\ UNCHANGED <<rows, added_eos, otherVars>>

InitConc ==
    /\ Started
    /\ StoreInit
    /\ NoDate
    /\ NoCrawl
    /\ threads = [t \in Threads |-> Idle(0)]

NextConc ==
    \E t \in Threads :
        \/ Call(t)
        \/ CheckTitle(t)
        \/ CheckUrl(t)
        \/ CheckExists(t)
        \/ SelectMax(t)
        \/ Insert(t)
        \/ LoadCount(t)
        \/ StoreCount(t)
        \/ Commit(t)

SpecConc == InitConc /\ [][NextConc]_vars

----------------------------------------------------------------------------
(* Properties of the store under sequential store_eo calls (Spec) *)

Range(f) == {f[i] : i \in DOMAIN f}

(* sub occurs in s as a contiguous run of equal characters *)
Contains(s, sub) ==
    \E i \in 0..(Len(s) - Len(sub)) : SubSeq(s, i + 1, i + Len(sub)) = sub

LowerStr(s) == [i \in 1..Len(s) |-> Lower(s[i])]

ContainsIgnoringCase(s, sub) == Contains(LowerStr(s), LowerStr(sub))

StoredBefore == last.op = "store_eo"

UrlWasAbsent == search_by_url(last.rows0, last.eo_data.url) = None

TitleWasAbsent == search_by_title(last.rows0, last.eo_data.title) = None

(* the row search_by_url finds right after store_eo is the draft, with an id *)
FindsTheDraft ==
    LET r == search_by_url(rows, last.eo_data.url)
    IN  /\ r # None
        /\ r.id \in Nat /\ r.id >= 1
        /\ r.title = last.eo_data.title
        /\ r.date = last.eo_data.date
        /\ r.content = last.eo_data.content
        /\ r.url = last.eo_data.url

(* C1, as claimed: for every draft whose url is not yet stored, store_eo   *)
(* followed immediately by search_by_url of that url returns a row with an *)
(* id and the draft's title, date, content and url, whatever else is       *)
(* stored.                                                                 *)
C1_StoreThenFindByUrl_AnyStore ==
    (StoredBefore /\ UrlWasAbsent) => FindsTheDraft

(* C1, amended: the same for every draft of which neither the url nor the  *)
(* title is stored yet.                                                    *)
C1_StoreThenFindByUrl ==
    (StoredBefore /\ UrlWasAbsent /\ TitleWasAbsent) => FindsTheDraft

C1_Witness ==
    /\ StoredBefore /\ UrlWasAbsent /\ TitleWasAbsent
    /\ Len(last.rows0) = 2
    /\ FindsTheDraft

(* C2: store_eo of a draft whose url or whose title equals that of a       *)
(* stored row writes nothing: the rows and added_eos are as before.        *)
C2_DuplicateIsNoWrite ==
    (StoredBefore /\ (~UrlWasAbsent \/ ~TitleWasAbsent)) =>
        (rows = last.rows0 /\ added_eos = last.added0)

C2_Witness ==
    /\ StoredBefore /\ ~UrlWasAbsent /\ TitleWasAbsent
    /\ rows = last.rows0 /\ added_eos = last.added0 /\ added_eos > 0

(* C3: after any sequence of store_eo calls from the empty store no two    *)
(* rows have the same url and no two rows have the same title.             *)
C3_UrlAndTitleUnique ==
    \A i, j \in 1..Len(rows) :
        i # j => (rows[i].url # rows[j].url /\ rows[i].title # rows[j].title)

C3_Witness ==
    /\ Len(rows) >= 2
    /\ StoredBefore /\ UrlWasAbsent /\ ~TitleWasAbsent

(* C4: each inserted row gets id 1 + max(existing ids), or 1 in the empty  *)
(* store, so the N rows inserted into an empty store carry ids 1..N in     *)
(* insertion order and no id is given twice.                               *)
C4_IdsIncrease ==
    /\ \A i \in 1..Len(rows) : rows[i].id = i
    /\ \A i, j \in 1..Len(rows) : i < j => rows[i].id < rows[j].id
    /\ (StoredBefore /\ rows # last.rows0) =>
           /\ Len(rows) = Len(last.rows0) + 1
           /\ SubSeq(rows, 1, Len(last.rows0)) = last.rows0
           /\ \A i \in 1..Len(last.rows0) : rows[Len(rows)].id > last.rows0[i].id
           /\ \E m \in {0} \cup {r.id : r \in Range(last.rows0)} :
                 /\ \A r \in Range(last.rows0) : r.id <= m
                 /\ rows[Len(rows)].id = m + 1

C4_Witness ==
    /\ StoredBefore /\ Len(last.rows0) = 2 /\ Len(rows) = 3
    /\ rows[3].id = 3

Searched == last.op = "perform_search"

(* the ids shown by the results table *)
ShownIds == {results_table[i][1] : i \in 1..Len(results_table)}

(* the ids of the rows one of whose columns satisfies Holds *)
IdsWhere(Holds(_)) ==
    {Str(r.id) : r \in
        {r \in Range(rows) :
            \/ Holds(Str(r.id)) \/ Holds(r.title) \/ Holds(r.date)
            \/ Holds(r.content) \/ Holds(r.url)}}

(* C10, as claimed: a search for s shows exactly the rows of which the id, *)
(* title, date, content or url contains s as a literal substring, compared *)
(* case-sensitively.                                                       *)
C10_SearchIsLiteralCaseSensitive ==
    Searched => ShownIds = IdsWhere(LAMBDA f : Contains(f, last.text))

HasWildcard(text) == \E i \in 1..Len(text) : text[i] \in {"%", "_"}

(* C10, amended: a search for s that has no % and no _ in it shows exactly *)
(* the rows of which the id, title, date, content or url contains s as a   *)
(* substring, compared without regard to the case of ASCII letters.        *)
C10_SearchIgnoresCase ==
    (Searched /\ ~HasWildcard(last.text)) =>
        ShownIds = IdsWhere(LAMBDA f : ContainsIgnoringCase(f, last.text))

C10_Witness ==
    /\ Searched /\ last.text = <<"e", "o">>
    /\ Len(rows) = 3
    /\ Cardinality(ShownIds) = 2

----------------------------------------------------------------------------
(* Properties of convert_date (SpecDate) *)

Converted == last.op = "convert_date"

(* what the date normalizer is specified to return for a trimmed string *)
Normalized(trimmed) ==
    IF strptime(trimmed).ok THEN strftime(strptime(trimmed)) ELSE trimmed

(* C9: convert_date trims its input before parsing and before passthrough: *)
(* the result is the YYYY-MM-DD form when the trimmed string matches       *)
(* "Month-name Day, Year" and the trimmed string itself otherwise.         *)
C9_ConvertDateTrims ==
    Converted =>
        /\ last.ret = convert_date(Strip(last.raw_date))
        /\ last.ret = Normalized(Strip(last.raw_date))

----------------------------------------------------------------------------
(* Properties of the crawl (SpecCrawl) *)

Extracted == last.op = "get_eo_data"

(* the fetch of the document timed out or its markup lacks what lines      *)
(* 478-485 read                                                            *)
ExtractionFailed == last.outcome # "ok" \/ Doc(last.url).markup # "ok"

(* C6: get_eo_data never raises past its own boundary: for every url and   *)
(* every failure inside it (navigation timeout, headline-wait timeout,     *)
(* missing headline or time element, parse error) it appends exactly one   *)
(* record, title, date and content "N/A" with the input url, and on        *)
(* success exactly one record carrying the input url.                      *)
C6_GetEoDataNeverRaises ==
    Extracted =>
        /\ ~last.raised
        /\ Len(eo_data) = Len(last.eo_data0) + 1
        /\ SubSeq(eo_data, 1, Len(last.eo_data0)) = last.eo_data0
        /\ Last(eo_data).url = last.url
        /\ ExtractionFailed =>
              /\ Last(eo_data).title = NA
              /\ Last(eo_data).date = NA
              /\ Last(eo_data).content = NA

C6_Witness ==
    /\ Extracted
    /\ last.outcome = "wait_timeout"
    /\ Doc(last.url).markup = "ok"
    /\ Len(eo_data) = 3
    /\ eo_data[1].title = <<"E", "O">>
    /\ eo_data[3] = [id |-> None, title |-> NA, date |-> NA, content |-> NA, url |-> DocUrl(3)]

(* page 1 has been fetched in this run and its pagination control lists    *)
(* the pages 1..site.pages                                                 *)
PaginationRead ==
    /\ site.pagination = "numbers"
    /\ fetched # <<>>
    /\ fetched[1].ok

InLoop == pc \in {"page", "docs"}

(* C7: when page 1's pagination control lists pages 1..N, the loop fetches *)
(* exactly N listing pages, current_page grows by exactly one per          *)
(* iteration, and the loop is left the first time current_page = N + 1,    *)
(* whether or not the fetches of pages 2..N fail.                          *)
C7_LoopFetchesEachPageOnce ==
    (PaginationRead /\ pc \in {"page", "docs", "close", "store"}) =>
        /\ total_pages = site.pages
        /\ \A i \in 1..Len(fetched) : fetched[i].page = i
        /\ current_page = Len(fetched) + (IF pc = "docs" THEN 0 ELSE 1)
        /\ InLoop => current_page <= site.pages
        /\ ~InLoop => (current_page = site.pages + 1 /\ Len(fetched) = site.pages)

C7_Witness ==
    /\ PaginationRead
    /\ pc = "close"
    /\ Len(fetched) = site.pages
    /\ ~fetched[Len(fetched)].ok
    /\ current_page = site.pages + 1

(* C8, as claimed: a second full crawl-and-store run against the unchanged *)
(* remote listing inserts nothing: the rows after it are the rows after    *)
(* the first run.                                                          *)
C8_RecrawlInsertsNothing ==
    \A k \in 2..Len(completed) : completed[k].rows = completed[k - 1].rows

(* C8, amended: a second full crawl-and-store run against the unchanged    *)
(* remote listing that extracts the same records as the run before it      *)
(* (every fetch succeeds or times out as it did then) inserts nothing.     *)
C8_SameRecrawlInsertsNothing ==
    \A k \in 2..Len(completed) :
        completed[k].eo_data = completed[k - 1].eo_data =>
            completed[k].rows = completed[k - 1].rows

C8_Witness ==
    /\ Len(completed) = 2
    /\ completed[2].eo_data = completed[1].eo_data
    /\ Len(completed[2].eo_data) >= 4
    /\ \E i \in 1..Len(completed[2].eo_data) : completed[2].eo_data[i].title # NA
    /\ Len(completed[1].rows) >= 2
    /\ completed[2].rows = completed[1].rows

(* the listing urls whose fetch failed at least once in this run *)
FailedFetchUrls == {fetched[i].url : i \in {j \in 1..Len(fetched) : ~fetched[j].ok}}

(* the document urls a listing page contributes when scraped alone *)
LinksOf(k) == Range(CollectLinks(Anchors(k), <<>>, <<>>).eo_links)

ExtractedUrls == {eo_data[i].url : i \in 1..Len(eo_data)}

(* listing page k was fetched, its links collected and its documents       *)
(* extracted                                                               *)
PageScraped(k) ==
    /\ \E i \in 1..Len(fetched) : fetched[i].ok /\ fetched[i].url = SiteListingUrl(k)
    /\ LinksOf(k) \subseteq Range(eo_links)
    /\ LinksOf(k) \subseteq ExtractedUrls

(* C11: a failed fetch of listing page k only skips page k: when the loop  *)
(* is left, every page of 1..P whose own fetch did not fail has been       *)
(* fetched, has its links collected and its documents extracted.           *)
C11_FailedPageOnlySkipsItself ==
    (pc = "close" /\ site.pagination # "empty") =>
        \A k \in 1..site.pages :
            SiteListingUrl(k) \notin FailedFetchUrls => PageScraped(k)

(* C12: whenever a listing-page fetch is issued, selected_url is the       *)
(* listing url of current_page: the root for page 1 and the root followed  *)
(* by page/<n>/ for page n, after any sequence of successful and failed    *)
(* fetches.                                                                *)
C12_FetchUsesUrlOfCurrentPage ==
    \A i \in 1..Len(fetched) :
        fetched[i].url = (IF fetched[i].page = 1 THEN foundation_url
                          ELSE PageUrl(fetched[i].page))

(* C13: a pagination control without page-number links leaves total_pages  *)
(* at 1: page 1's links are collected and extracted as on a single-page    *)
(* site and no error ends the run.                                         *)
C13_EmptyPaginationIsSinglePage ==
    (site.pagination = "empty" /\ pc = "close" /\ fetched[1].ok) =>
        /\ total_pages = 1
        /\ last.op # "scrape_page"
        /\ PageScraped(1)

(* C14: in every state of a crawl run eo_links holds no url twice and no    *)
(* document url is handed to get_eo_data twice in the run, though the      *)
(* same href stands several times on one listing page and on several       *)
(* pages.                                                                  *)
C14_NoUrlTwice ==
    /\ \A i, j \in 1..Len(eo_links) : i # j => eo_links[i] # eo_links[j]
    /\ \A i, j \in 1..Len(eo_data) : i # j => eo_data[i].url # eo_data[j].url

(* both pages of a two-page listing scraped: u1 stands twice on page 1, u4 *)
(* twice on page 2 and u3 on both pages                                    *)
C14_Witness ==
    /\ pc = "close"
    /\ site.pages = 2
    /\ Len(fetched) = 2
    /\ \A i \in 1..2 : fetched[i].ok
    /\ Len(Anchors(1) \o Anchors(2)) > 6
    /\ eo_links = <<DocUrl(1), DocUrl(2), DocUrl(3), RootWithoutSlash,
                    DocUrl(4), DocUrl(5), DocUrl(6)>>
    /\ Len(eo_data) = 7

(* the crawl stands between two listing pages or has left the loop *)
PageFinished == pc \in {"page", "close", "store"}

(* C15: whenever a listing page has been processed, eo_data holds exactly  *)
(* one record per url of eo_links, in the same order: the extracted record *)
(* or, for a url whose extraction failed, the "N/A" sentinel of that url;  *)
(* the links after a failed one are extracted all the same.                *)
C15_OneRecordPerLink ==
    PageFinished =>
        /\ Len(eo_data) = Len(eo_links)
        /\ \A i \in 1..Len(eo_data) :
              /\ eo_data[i].url = eo_links[i]
              /\ \/ eo_data[i] = Sentinel(eo_links[i])
                 \/ /\ ~ExtractBody(eo_links[i], "ok").raises
                    /\ eo_data[i] = ExtractBody(eo_links[i], "ok").record
              /\ ExtractBody(eo_links[i], "ok").raises => eo_data[i] = Sentinel(eo_links[i])

(* page 1 processed: the fetch of document 1 timed out, document 2 has no  *)
(* time element, document 3 was extracted after both                       *)
C15_Witness ==
    /\ pc = "page"
    /\ current_page = 2
    /\ eo_links = <<DocUrl(1), DocUrl(2), DocUrl(3), RootWithoutSlash>>
    /\ eo_data[1] = Sentinel(DocUrl(1))
    /\ eo_data[2] = Sentinel(DocUrl(2))
    /\ eo_data[3].title = <<"e", "o">>

(* C16: after the records of a run have been submitted to the store, the   *)
(* store holds a record with the url of every document whose extraction    *)
(* failed in that run, also when several documents failed in it.           *)
C16_FailedUrlsAreStored ==
    \A k \in 1..Len(completed) :
        \A i \in 1..Len(completed[k].eo_data) :
            completed[k].eo_data[i].title = NA =>
                search_by_url(completed[k].rows, completed[k].eo_data[i].url) # None

----------------------------------------------------------------------------
(* Properties of main and of an interrupted crawl (SpecCrawl) *)

Exited == pc = "exited" /\ last.op = "main"

(* the store holds the record or what store_eo takes for its duplicate *)
Committed(db, eo) ==
    \/ search_by_url(db, eo.url) # None
    \/ search_by_title(db, eo.title) # None

(* C17: an interrupt loses no extracted record: when the process has       *)
(* exited after a crawl was interrupted with k documents extracted, the    *)
(* store holds each of the k records (or its duplicate).                   *)
C17_InterruptKeepsExtracted ==
    (Exited /\ last.interrupted) =>
        \A i \in 1..Len(last.extracted) : Committed(rows, last.extracted[i])

(* C18: on every way out of main (app.exec() returns, KeyboardInterrupt,   *)
(* an unhandled exception) the connection's close is performed exactly     *)
(* once.                                                                   *)
C18_ClosedExactlyOnce ==
    (Exited /\ last.path \in {"normal", "KeyboardInterrupt", "Exception"}) =>
        closes = 1

(* C19: after an interrupt (KeyboardInterrupt in main, or a signal         *)
(* delivered to the scraper's signal handler) the process has exited with  *)
(* the connection closed and a status other than 0.                        *)
C19_InterruptExitsNonZero ==
    (last.op = "main" /\ last.path \in {"KeyboardInterrupt", "SystemExit"}) =>
        /\ pc = "exited"
        /\ closes >= 1
        /\ exit_status # <<0>>

----------------------------------------------------------------------------
(* Frame properties of the store (SpecCrawl) *)

(* C21: no step mutates or deletes a stored record: every row of the table *)
(* is after the step where and what it was before it, with the same id,    *)
(* title, date, content and url; a stored "N/A" sentinel of a url stays    *)
(* when a later run extracts that url.                                     *)
C21_RowsAreNeverChanged ==
    [][/\ Len(rows') >= Len(rows)
       /\ SubSeq(rows', 1, Len(rows)) = rows]_vars

(* run 1 stored the sentinel of u1, whose fetch had timed out; run 2       *)
(* extracted u1 and submitted its record; the sentinel is still the row    *)
(* of u1                                                                   *)
C21_Witness ==
    /\ Len(completed) = 2
    /\ completed[1].eo_data # <<>>
    /\ completed[2].eo_data # <<>>
    /\ completed[1].eo_data[1] = Sentinel(DocUrl(1))
    /\ completed[1].rows[1].url = DocUrl(1)
    /\ completed[2].eo_data[1].url = DocUrl(1)
    /\ completed[2].eo_data[1].title = <<"E", "O">>
    /\ rows[1].url = DocUrl(1)
    /\ rows[1].title = NA
    /\ Len(rows) > Len(completed[1].rows)

(* the hrefs of the listing pages scraped so far in this run *)
ScrapedHrefs ==
    UNION {Range(Anchors(SitePageAt(site, fetched[i].url))) :
              i \in {j \in 1..Len(fetched) : fetched[j].ok}}

(* C23: in every state of a crawl run neither the listing root url nor the *)
(* url of the presidential-actions index is in eo_links or was passed to   *)
(* get_eo_data; the exclusion is by equality of the whole href, so an href *)
(* that differs from them in one character is collected.                   *)
C23_IndexUrlsNeverCollected ==
    /\ Range(eo_links) \cap {foundation_url, presidential_actions_url} = {}
    /\ ExtractedUrls \cap {foundation_url, presidential_actions_url} = {}
    /\ site.pagination # "empty" =>
          ScrapedHrefs \ {<<>>, foundation_url, presidential_actions_url}
              \subseteq Range(eo_links)

(* page 1, which links both index urls, is processed: the root without its *)
(* closing slash was collected and handed to get_eo_data                   *)
C23_Witness ==
    /\ pc = "page"
    /\ current_page = 2
    /\ {foundation_url, presidential_actions_url} \subseteq ScrapedHrefs
    /\ RootWithoutSlash \in Range(eo_links)
    /\ RootWithoutSlash \in ExtractedUrls

----------------------------------------------------------------------------
(* Properties of the start of main (SpecStart) *)

DatabaseConstructed == last.op = "Database.__init__"

(* C22: at initialization only the table-already-exists error of the table *)
(* creation is swallowed, and the table and its rows are then what they    *)
(* were; every other storage error of the initialization ends the process. *)
C22_OnlyTableExistsIsSwallowed ==
    DatabaseConstructed =>
        /\ last.error = "table_exists" =>
              (pc # "exited" /\ table /\ rows = last.rows0)
        /\ last.error \notin {"none", "table_exists"} => pc = "exited"

----------------------------------------------------------------------------
(* Properties of concurrent store_eo calls (SpecConc) *)

(* C5: the duplicate check, the id assignment and the insert of store_eo   *)
(* are atomic with respect to other store_eo calls: of two concurrent      *)
(* calls for the same url at most one inserts a row, in every              *)
(* interleaving.                                                           *)
C5_ConcurrentStoreInsertsOnce ==
    \A i, j \in 1..Len(rows) : i # j => rows[i].url # rows[j].url

============================================================================
